---- MODULE Spec2Model ----
(***************************************************************************)
(* Model of data/data_600K/plot_dataset_distributions.py.                  *)
(*                                                                         *)
(* The script is sequential: plot_distributions() calls                    *)
(* load_and_process_data() once per entry of DATASET_FILES, then builds,   *)
(* saves and closes the energy figure, then the force figure.              *)
(*                                                                         *)
(* Numbers.  The script computes in IEEE doubles; the model computes in    *)
(* fixed point: energies are integers in meV (1e-3 eV), force components   *)
(* are integers in eV/A and force magnitudes are integers in 1e-3 eV/A.    *)
(* Division and square root round towards minus infinity at that           *)
(* resolution.                                                             *)
(*                                                                         *)
(* Library calls.  ase.io.read either returns the frames stored in the     *)
(* file or raises (malformed file).  np.percentile of an empty array       *)
(* either raises (IndexError) or returns nan, and Axes.set_xlim rejects a  *)
(* nan limit (ValueError): both outcomes are an exception out of the       *)
(* set_xlim statement.  plt.savefig either writes the image or raises      *)
(* (I/O error).  A curve of the model is one call of sns.kdeplot: what     *)
(* seaborn draws for the data it is handed is outside the model.           *)
(***************************************************************************)
EXTENDS Integers, Sequences, FiniteSets, TLC

VARIABLES
    fs,        \* the file system: path -> file
    pc,        \* position of the running call
    all_data,  \* plot_distributions: the insertion-ordered dict all_data
    calls,     \* paths load_and_process_data was called with, in call order
    stdout,    \* lines printed, in order
    reads,     \* paths handed to ase.io.read, in order
    created,   \* figures created so far, in order
    open,      \* figures currently open
    curves,    \* figure -> curves drawn on it, in drawing order
    saved,     \* image files written
    failedAt,  \* the statement an uncaught exception came out of
    filepath,  \* load_and_process_data called on its own: its argument
    ret        \* load_and_process_data called on its own: its outcome

vars == <<fs, pc, all_data, calls, stdout, reads, created, open, curves,
          saved, failedAt, filepath, ret>>

----------------------------------------------------------------------------
(* Bounds of the model. *)

\* frames per file, and atoms per file, when the extractor is called alone
MaxFrames == 2
MaxFileAtoms == 3
\* frames per file, and atoms per file, in a whole run of the script
MaxPlotFrames == 2
MaxPlotAtoms == 1

----------------------------------------------------------------------------
(* Configuration (lines 11-25). *)

\* meV, rounded from the eV values of the table
ISOLATED_ATOM_ENERGIES ==
    ("Cr" :> -2270519) @@ ("Sb" :> -1908633) @@ ("Te" :> -2369398)

DATASET_FILES ==
    << [label |-> "Train",      path |-> "train.xyz", color |-> "Heritage Blue"],
       [label |-> "Validation", path |-> "valid.xyz", color |-> "Spirit Blue"],
       [label |-> "Test",       path |-> "test.xyz",  color |-> "Red"] >>

OUTPUT_DIR == "dataset_analysis_plots"

\* os.path.join(OUTPUT_DIR, ...), lines 94 and 114
energy_plot_path == "dataset_analysis_plots/energy_distribution_comparison.png"
force_plot_path == "dataset_analysis_plots/force_distribution_comparison.png"

Labels == {DATASET_FILES[i].label : i \in DOMAIN DATASET_FILES}
Paths == {DATASET_FILES[i].path : i \in DOMAIN DATASET_FILES}

LabelInfo(label) ==
    CHOOSE d \in {DATASET_FILES[i] : i \in DOMAIN DATASET_FILES} : d.label = label

----------------------------------------------------------------------------
(* Inputs: frames and files. *)

\* A frame (ase.Atoms): symbols and forces have one entry per atom.
MkFrame(e, atomSeq) ==
    [symbols |-> [i \in DOMAIN atomSeq |-> atomSeq[i].symbol],
     energy  |-> e,
     forces  |-> [i \in DOMAIN atomSeq |-> atomSeq[i].force]]

\* The atoms input frames are built from: the three elements of the
\* reference table, and one element ("Xx") that is not in it.
AtomKinds ==
    { [symbol |-> "Cr", force |-> <<0, 0, 1>>],
      [symbol |-> "Sb", force |-> <<0, 0, -1>>],
      [symbol |-> "Te", force |-> <<3, 4, 0>>],
      [symbol |-> "Xx", force |-> <<1, 1, 0>>] }

\* total potential energies of input frames, meV
FrameEnergies == {-4179150, -2369400}

PlotAtomKinds == { [symbol |-> "Te", force |-> <<3, 4, 0>>] }
PlotFrameEnergies == {-2369400}

FramesWith(kinds, energies, n) ==
    {MkFrame(e, s) : e \in energies, s \in [1..n -> kinds]}

\* every frame sequence of at most k frames and at most budget atoms in all
\* (what a file that ase.io.read accepts can hold)
RECURSIVE FileContents(_, _, _, _)
FileContents(kinds, energies, k, budget) ==
    IF k = 0 THEN {<<>>}
    ELSE {<<>>} \cup
         UNION { { <<fr>> \o rest :
                     fr \in FramesWith(kinds, energies, n),
                     rest \in FileContents(kinds, energies, k - 1, budget - n) }
                 : n \in 0..budget }

MissingFile == [kind |-> "missing", frames |-> <<>>]
MalformedFile == [kind |-> "malformed", frames |-> <<>>]
GoodFile(frames) == [kind |-> "ok", frames |-> frames]

PlotFiles ==
    {MissingFile, MalformedFile} \cup
    {GoodFile(f) : f \in FileContents(PlotAtomKinds, PlotFrameEnergies,
                                      MaxPlotFrames, MaxPlotAtoms)}

----------------------------------------------------------------------------
(* load_and_process_data (lines 27-66). *)

\* dict.get(key, default)
DictGet(d, key, default) == IF key \in DOMAIN d THEN d[key] ELSE default

RECURSIVE SeqSum(_)
SeqSum(s) == IF s = <<>> THEN 0 ELSE s[1] + SeqSum(Tail(s))

\* line 56: sum(ISOLATED_ATOM_ENERGIES.get(sym, 0) for sym in symbols)
E0SumWrongDefault(symbols) ==
    SeqSum([i \in DOMAIN symbols |->
              DictGet(ISOLATED_ATOM_ENERGIES, symbols[i], -1908633)])
E0Sum(symbols) ==
    SeqSum([i \in DOMAIN symbols |-> DictGet(ISOLATED_ATOM_ENERGIES, symbols[i], 0)])

\* lines 55-59: the frame's energy is appended when the frame has atoms
AppendEnergyAlways(energies_per_atom, atoms) ==
    LET num_atoms == Len(atoms.symbols)
    IN  Append(energies_per_atom,
               IF num_atoms > 0
               THEN (atoms.energy - E0Sum(atoms.symbols)) \div num_atoms
               ELSE atoms.energy)
AppendEnergy(energies_per_atom, atoms) ==
    LET e_total == atoms.energy
        e0_sum == E0Sum(atoms.symbols)
        num_atoms == Len(atoms.symbols)
    IN  IF num_atoms > 0
        THEN Append(energies_per_atom, (e_total - e0_sum) \div num_atoms)
        ELSE energies_per_atom

\* floor of the square root, by bisection on lo <= root < hi
RECURSIVE Bisect(_, _, _)
Bisect(n, lo, hi) ==
    IF hi - lo <= 1 THEN lo
    ELSE LET mid == (lo + hi) \div 2
         IN  IF mid * mid <= n THEN Bisect(n, mid, hi) ELSE Bisect(n, lo, mid)

Sqrt(n) == Bisect(n, 0, 46341)

\* np.linalg.norm of one row, in 1e-3 eV/A
RowNorm(v) == Sqrt(1000000 * (v[1] * v[1] + v[2] * v[2] + v[3] * v[3]))

\* lines 62-63: np.linalg.norm(forces, axis=1)
MagnitudesReversed(forces) ==
    [i \in DOMAIN forces |-> RowNorm(forces[Len(forces) + 1 - i])]
Magnitudes(forces) == [i \in DOMAIN forces |-> RowNorm(forces[i])]

\* line 64: all_force_magnitudes.extend(magnitudes)
ExtendForcesAppend(all_force_magnitudes, atoms) ==
    Append(all_force_magnitudes, Magnitudes(atoms.forces))
ExtendForces(all_force_magnitudes, atoms) ==
    all_force_magnitudes \o Magnitudes(atoms.forces)

\* lines 50-66: the loop over the frames, from frame i on
RECURSIVE FrameLoop(_, _, _, _)
FrameLoop(frames, i, energies_per_atom, all_force_magnitudes) ==
    IF i > Len(frames)
    THEN [energies |-> energies_per_atom, forces |-> all_force_magnitudes]
    ELSE FrameLoop(frames, i + 1,
                   AppendEnergy(energies_per_atom, frames[i]),
                   ExtendForces(all_force_magnitudes, frames[i]))

Warning(path) == [line |-> "Warning: File not found. Skipping.", path |-> path]
Processing(path) == [line |-> "Processing...", path |-> path]

\* The outcome of one call: what it printed, what it read, whether an
\* exception came out of it, and the pair it returned.
Outcome(out, rd, raised, energies, forces) ==
    [out |-> out, reads |-> rd, raised |-> raised,
     energies |-> energies, forces |-> forces]

load_and_process_data_EagerBanner(files, path) ==
    IF files[path].kind = "missing"
    THEN Outcome(<<Processing(path), Warning(path)>>, <<>>, FALSE, <<>>, <<>>)
    ELSE IF files[path].kind = "malformed"
    THEN Outcome(<<Processing(path)>>, <<path>>, TRUE, <<>>, <<>>)
    ELSE LET r == FrameLoop(files[path].frames, 1, <<>>, <<>>)
         IN  Outcome(<<Processing(path)>>, <<path>>, FALSE, r.energies, r.forces)
load_and_process_data(files, path) ==
    IF files[path].kind = "missing"                       \* lines 41-43
    THEN Outcome(<<Warning(path)>>, <<>>, FALSE, <<>>, <<>>)
    ELSE IF files[path].kind = "malformed"                \* lines 45-46, read raises
    THEN Outcome(<<Processing(path)>>, <<path>>, TRUE, <<>>, <<>>)
    ELSE LET r == FrameLoop(files[path].frames, 1, <<>>, <<>>)
         IN  Outcome(<<Processing(path)>>, <<path>>, FALSE, r.energies, r.forces)

NoOutcome == Outcome(<<>>, <<>>, FALSE, <<>>, <<>>)

----------------------------------------------------------------------------
(* plot_distributions (lines 68-117). *)

\* line 77: all_data[label] = value, on an insertion-ordered dict
DictSetFront(d, label, value) ==
    <<[label |-> label, value |-> value]>> \o d
DictSet(d, label, value) ==
    IF \E i \in DOMAIN d : d[i].label = label
    THEN [i \in DOMAIN d |-> IF d[i].label = label
                             THEN [label |-> label, value |-> value]
                             ELSE d[i]]
    ELSE Append(d, [label |-> label, value |-> value])

\* all_data[label]
DictAt(d, label) == (CHOOSE e \in {d[i] : i \in DOMAIN d} : e.label = label).value

DictKeys(d) == [i \in DOMAIN d |-> d[i].label]

\* lines 81-84, 101-104: one curve per entry whose array is not empty,
\* visiting all_data.items() in insertion order
RECURSIVE KdeLoop(_, _, _)
KdeLoop(d, key, drawn) ==
    IF d = <<>> THEN drawn
    ELSE LET label == Head(d).label
             data == Head(d).value
         IN  KdeLoop(Tail(d), key,
                     IF Len(data[key]) > 0
                     THEN Append(drawn, [label |-> label,
                                         color |-> LabelInfo(label).color,
                                         data |-> data[key]])
                     ELSE drawn)

\* lines 92, 112: np.percentile(all_data['Train'][key], 90) inside set_xlim
XRangeNeverRaises(d, key) == FALSE
XRangeRaises(d, key) == Len(DictAt(d, "Train")[key]) = 0

\* lines 97, 117: plt.close(fig)
FigureLeftOpen(figures, fig) == figures
CloseFigure(figures, fig) == figures \ {fig}

SavedLine(path) == [line |-> "plot saved to", path |-> path]

\* line 72
MakeDirs ==
    /\ pc = "makedirs"
    /\ pc' = "load"
    /\ UNCHANGED <<fs, all_data, calls, stdout, reads, created, open, curves,
                   saved, failedAt, filepath, ret>>

\* lines 75-77: one iteration of the loop over DATASET_FILES.items()
Load ==
    /\ pc = "load"
    /\ LET info == DATASET_FILES[Len(calls) + 1]
           r == load_and_process_data(fs, info.path)
       IN  /\ calls' = Append(calls, info.path)
           /\ stdout' = stdout \o r.out
           /\ reads' = reads \o r.reads
           /\ IF r.raised
              THEN /\ pc' = "failed"
                   /\ failedAt' = "read"
                   /\ UNCHANGED all_data
              ELSE /\ all_data' = DictSet(all_data, info.label,
                                          [energies |-> r.energies,
                                           forces |-> r.forces])
                   /\ pc' = IF Len(calls) + 1 = Len(DATASET_FILES)
                            THEN "subplots_e" ELSE "load"
                   /\ UNCHANGED failedAt
    /\ UNCHANGED <<fs, created, open, curves, saved, filepath, ret>>

\* lines 80, 100: plt.subplots
Subplots(at, fig, next) ==
    /\ pc = at
    /\ created' = Append(created, fig)
    /\ open' = open \cup {fig}
    /\ pc' = next
    /\ UNCHANGED <<fs, all_data, calls, stdout, reads, curves, saved,
                   failedAt, filepath, ret>>

\* lines 81-84, 101-104
Kde(at, fig, key, next) ==
    /\ pc = at
    /\ curves' = [curves EXCEPT ![fig] = KdeLoop(all_data, key, <<>>)]
    /\ pc' = next
    /\ UNCHANGED <<fs, all_data, calls, stdout, reads, created, open, saved,
                   failedAt, filepath, ret>>

\* lines 86-93, 106-113: titles, legend, grid, x-range, tight_layout
Xlim(at, key, next) ==
    /\ pc = at
    /\ IF XRangeRaises(all_data, key)
       THEN pc' = "failed" /\ failedAt' = at
       ELSE pc' = next /\ UNCHANGED failedAt
    /\ UNCHANGED <<fs, all_data, calls, stdout, reads, created, open, curves,
                   saved, filepath, ret>>

\* lines 94-95, 114-115: plt.savefig writes the image or raises
Savefig(at, path, next) ==
    /\ pc = at
    /\ \E written \in BOOLEAN :
         IF written
         THEN saved' = saved \cup {path} /\ pc' = next /\ UNCHANGED failedAt
         ELSE pc' = "failed" /\ failedAt' = at /\ UNCHANGED saved
    /\ UNCHANGED <<fs, all_data, calls, stdout, reads, created, open, curves,
                   filepath, ret>>

\* lines 96, 116
PrintSaved(at, path, next) ==
    /\ pc = at
    /\ stdout' = Append(stdout, SavedLine(path))
    /\ pc' = next
    /\ UNCHANGED <<fs, all_data, calls, reads, created, open, curves, saved,
                   failedAt, filepath, ret>>

\* lines 97, 117
Close(at, fig, next) ==
    /\ pc = at
    /\ open' = CloseFigure(open, fig)
    /\ pc' = next
    /\ UNCHANGED <<fs, all_data, calls, stdout, reads, created, curves, saved,
                   failedAt, filepath, ret>>

SubplotsE == Subplots("subplots_e", "fig_e", "kde_e")
KdeE == Kde("kde_e", "fig_e", "energies", "xlim_e")
XlimE == Xlim("xlim_e", "energies", "savefig_e")
SavefigE == Savefig("savefig_e", energy_plot_path, "print_e")
PrintE == PrintSaved("print_e", energy_plot_path, "close_e")
CloseE == Close("close_e", "fig_e", "subplots_f")
SubplotsF == Subplots("subplots_f", "fig_f", "kde_f")
KdeF == Kde("kde_f", "fig_f", "forces", "xlim_f")
XlimF == Xlim("xlim_f", "forces", "savefig_f")
SavefigF == Savefig("savefig_f", force_plot_path, "print_f")
PrintF == PrintSaved("print_f", force_plot_path, "close_f")
CloseF == Close("close_f", "fig_f", "done")

\* the script is started (line 120) on some content of the three paths
Init ==
    /\ fs \in [Paths -> PlotFiles]
    /\ pc = "makedirs"
    /\ all_data = <<>>
    /\ calls = <<>>
    /\ stdout = <<>>
    /\ reads = <<>>
    /\ created = <<>>
    /\ open = {}
    /\ curves = [f \in {"fig_e", "fig_f"} |-> <<>>]
    /\ saved = {}
    /\ failedAt = "none"
    /\ filepath = "none"
    /\ ret = NoOutcome

Next ==
    \/ MakeDirs
    \/ Load
    \/ SubplotsE
    \/ KdeE
    \/ XlimE
    \/ SavefigE
    \/ PrintE
    \/ CloseE
    \/ SubplotsF
    \/ KdeF
    \/ XlimF
    \/ SavefigF
    \/ PrintF
    \/ CloseF

Spec == Init /\ [][Next]_vars

----------------------------------------------------------------------------
(* load_and_process_data called on its own, on one path: the path is     *)
(* missing, malformed, empty, or holds a first frame and further frames.   *)

CallExtractor ==
    /\ pc = "call"
    /\ LET r == load_and_process_data(fs, filepath)
       IN  /\ ret' = r
           /\ calls' = Append(calls, filepath)
           /\ stdout' = stdout \o r.out
           /\ reads' = reads \o r.reads
           /\ pc' = IF r.raised THEN "failed" ELSE "returned"
           /\ failedAt' = IF r.raised THEN "read" ELSE failedAt
    /\ UNCHANGED <<fs, all_data, created, open, curves, saved, filepath>>

InitExtract ==
    /\ filepath = "train.xyz"
    /\ \/ \E file \in {MissingFile, MalformedFile, GoodFile(<<>>)} :
             fs = [p \in {"train.xyz"} |-> file]
       \/ \E n \in 0..MaxFileAtoms :
             \E first \in FramesWith(AtomKinds, FrameEnergies, n),
                rest \in FileContents(AtomKinds, FrameEnergies,
                                      MaxFrames - 1, MaxFileAtoms - n) :
                fs = [p \in {"train.xyz"} |-> GoodFile(<<first>> \o rest)]
    /\ pc = "call"
    /\ all_data = <<>>
    /\ calls = <<>>
    /\ stdout = <<>>
    /\ reads = <<>>
    /\ created = <<>>
    /\ open = {}
    /\ curves = [f \in {"fig_e", "fig_f"} |-> <<>>]
    /\ saved = {}
    /\ failedAt = "none"
    /\ ret = NoOutcome

NextExtract == CallExtractor

SpecExtract == InitExtract /\ [][NextExtract]_vars

----------------------------------------------------------------------------
(* Properties. *)

\* the frames of the file the extractor was called on
InputFrames == fs[filepath].frames
NumAtoms(frame) == Len(frame.symbols)

\* how many atoms of the symbol a frame has
Count(symbols, sym) == Cardinality({i \in DOMAIN symbols : symbols[i] = sym})

\* the isolated-atom energy of a frame, element by element
ReferenceOf(symbols) ==
      ISOLATED_ATOM_ENERGIES["Cr"] * Count(symbols, "Cr")
    + ISOLATED_ATOM_ENERGIES["Sb"] * Count(symbols, "Sb")
    + ISOLATED_ATOM_ENERGIES["Te"] * Count(symbols, "Te")

\* frames with atoms among the first i frames
FramesWithAtoms(frames, i) ==
    Cardinality({j \in 1..i : NumAtoms(frames[j]) > 0})

\* atoms in the first i frames
RECURSIVE AtomsBefore(_, _)
AtomsBefore(frames, i) ==
    IF i = 0 THEN 0 ELSE NumAtoms(frames[i]) + AtomsBefore(frames, i - 1)

HasLine(kind, path) == \E i \in DOMAIN stdout : stdout[i] = [line |-> kind, path |-> path]

\* C1: for every frame with atoms, the energy appended for it is
\* (E_total - sum of reference[symbol]) / atom_count at the resolution of
\* the arithmetic, a symbol outside the table counting 0.
C1_NormalizedEnergy ==
    (pc = "returned" /\ fs[filepath].kind = "ok") =>
        \A i \in DOMAIN InputFrames :
            LET frame == InputFrames[i]
                n == NumAtoms(frame)
                k == FramesWithAtoms(InputFrames, i)
                d == frame.energy - ReferenceOf(frame.symbols)
            IN  n > 0 =>
                    /\ k \in DOMAIN ret.energies
                    /\ ret.energies[k] * n <= d
                    /\ d < (ret.energies[k] + 1) * n

\* a frame mixing table elements with the unknown one has been reduced
C1_Witness ==
    /\ pc = "returned"
    /\ \E i \in DOMAIN InputFrames :
          /\ Count(InputFrames[i].symbols, "Xx") = 1
          /\ Count(InputFrames[i].symbols, "Cr") = 1
          /\ Count(InputFrames[i].symbols, "Te") = 1
    /\ Len(ret.energies) = 1

\* C2: for an existing, readable file the force sequence has one entry per
\* atom of the file and the energy sequence one entry per frame with atoms;
\* a frame without atoms raises nothing.
C2_Lengths ==
    (pc # "call" /\ fs[filepath].kind = "ok") =>
        /\ pc = "returned"
        /\ Len(ret.forces) = AtomsBefore(InputFrames, Len(InputFrames))
        /\ Len(ret.energies) = FramesWithAtoms(InputFrames, Len(InputFrames))

\* a file with a frame without atoms followed by a frame with atoms
C2_Witness ==
    /\ pc = "returned"
    /\ Len(InputFrames) = 2
    /\ NumAtoms(InputFrames[1]) = 0
    /\ NumAtoms(InputFrames[2]) = 2
    /\ Len(ret.energies) = 1
    /\ Len(ret.forces) = 2

\* C5: on a missing path the call prints the warning and nothing else, reads
\* nothing and returns two empty sequences; on an existing path it prints
\* the progress line and nothing else.
C5_OneMessage ==
    pc # "call" =>
        /\ Len(stdout) = 1
        /\ fs[filepath].kind = "missing" =>
              /\ stdout = <<Warning(filepath)>>
              /\ reads = <<>>
              /\ pc = "returned"
              /\ ret.energies = <<>> /\ ret.forces = <<>>
        /\ fs[filepath].kind # "missing" =>
              /\ stdout = <<Processing(filepath)>>
              /\ reads = <<filepath>>

C5_Witness ==
    /\ pc = "returned"
    /\ fs[filepath].kind = "missing"
    /\ stdout = <<Warning(filepath)>>

\* C7: atom a of frame i has its magnitude at position (atoms of the frames
\* before i) + a of the output, and that magnitude is the non-negative root
\* of the sum of the squares of its three force components.
C7_ForceMagnitudes ==
    (pc = "returned" /\ fs[filepath].kind = "ok") =>
        /\ Len(ret.forces) = AtomsBefore(InputFrames, Len(InputFrames))
        /\ \A i \in DOMAIN InputFrames : \A a \in DOMAIN InputFrames[i].forces :
              LET v == InputFrames[i].forces[a]
                  m == ret.forces[AtomsBefore(InputFrames, i - 1) + a]
                  sq == 1000000 * (v[1] * v[1] + v[2] * v[2] + v[3] * v[3])
              IN  m >= 0 /\ m * m <= sq /\ sq < (m + 1) * (m + 1)

\* two frames, three atoms, three different magnitudes
C7_Witness ==
    /\ pc = "returned"
    /\ Len(InputFrames) = 2
    /\ ret.forces = <<5000, 1000, 1414>>

\* the file the run found at the path of a label
FileOf(label) == fs[LabelInfo(label).path]
HasData(label) ==
    /\ FileOf(label).kind = "ok"
    /\ \E i \in DOMAIN FileOf(label).frames : NumAtoms(FileOf(label).frames[i]) > 0
CurveLabels(fig) == [i \in DOMAIN curves[fig] |-> curves[fig][i].label]
Legend(fig) == {curves[fig][i].label : i \in DOMAIN curves[fig]}
ConfiguredLabels == [i \in DOMAIN DATASET_FILES |-> DATASET_FILES[i].label]
ConfiguredPaths == [i \in DOMAIN DATASET_FILES |-> DATASET_FILES[i].path]
Position(label) == CHOOSE i \in DOMAIN DATASET_FILES : DATASET_FILES[i].label = label
TrainLoaded == \E i \in DOMAIN all_data : all_data[i].label = "Train"

\* C3: when one path is missing and the other two files have data, the run
\* saves both plots, each with the other two labels and without the missing
\* one (runs in which writing an image fails aside).
C3_MissingLabelSkipped ==
    \A missing \in Labels :
        ( /\ pc \in {"done", "failed"}
          /\ FileOf(missing).kind = "missing"
          /\ \A other \in Labels \ {missing} : HasData(other)
          /\ failedAt \notin {"savefig_e", "savefig_f"} )
        => /\ saved = {energy_plot_path, force_plot_path}
           /\ Legend("fig_e") = Labels \ {missing}
           /\ Legend("fig_f") = Labels \ {missing}

\* C4: no figure is open when plot_distributions has returned or raised.
C4_FiguresClosed == pc \in {"done", "failed"} => open = {}

\* C6: once Train's energy sequence is known to be empty the run saves
\* nothing, prints no confirmation and never gets past the x-range of the
\* energy plot; if it reaches the energy figure it ends there.
C6_EmptyTrainAborts ==
    (TrainLoaded /\ DictAt(all_data, "Train").energies = <<>>) =>
        /\ saved = {}
        /\ ~HasLine("plot saved to", energy_plot_path)
        /\ ~HasLine("plot saved to", force_plot_path)
        /\ pc \in {"load", "subplots_e", "kde_e", "xlim_e", "failed"}
        /\ (pc = "failed" /\ created # <<>>) => failedAt = "xlim_e"
        /\ (pc = "failed" /\ created = <<>>) => failedAt = "read"

\* Train holds only a frame without atoms, the other two files have data
C6_Witness ==
    /\ pc = "failed"
    /\ failedAt = "xlim_e"
    /\ FileOf("Train").kind = "ok"
    /\ Len(FileOf("Train").frames) = 1
    /\ HasData("Validation")
    /\ HasData("Test")
    /\ Legend("fig_e") = {"Validation", "Test"}

\* C8: the extractor is called on the configured paths in configured order,
\* once each; the results are kept in that order; the curves are drawn in
\* that order; no figure exists before the last call has returned.
C8_ExtractionOrder ==
    /\ Len(calls) <= Len(DATASET_FILES)
    /\ calls = SubSeq(ConfiguredPaths, 1, Len(calls))
    /\ DictKeys(all_data) = SubSeq(ConfiguredLabels, 1, Len(all_data))
    /\ \A fig \in DOMAIN curves : \A i, j \in DOMAIN curves[fig] :
          i < j => Position(curves[fig][i].label) < Position(curves[fig][j].label)
    /\ created # <<>> =>
          /\ calls = ConfiguredPaths
          /\ DictKeys(all_data) = ConfiguredLabels

C8_Witness ==
    /\ pc = "done"
    /\ CurveLabels("fig_e") = ConfiguredLabels
    /\ CurveLabels("fig_f") = ConfiguredLabels

\* C9: at most one figure is open; the force figure is created only after
\* the energy image is saved, its confirmation printed and its figure
\* closed; a confirmation is printed only for an image that has been saved.
C9_OneFigureAtATime ==
    /\ Cardinality(open) <= 1
    /\ (\E i \in DOMAIN created : created[i] = "fig_f") =>
          /\ energy_plot_path \in saved
          /\ HasLine("plot saved to", energy_plot_path)
          /\ "fig_e" \notin open
    /\ \A path \in {energy_plot_path, force_plot_path} :
          HasLine("plot saved to", path) => path \in saved

C9_Witness ==
    /\ created = <<"fig_e", "fig_f">>
    /\ open = {"fig_f"}
    /\ pc = "close_f"

\* C10: every extraction result has an empty energy sequence exactly when
\* its force sequence is empty; so the two plots show the same labels, and
\* the run never fails at the x-range of the force plot.
C10_EmptyTogether ==
    /\ \A i \in DOMAIN all_data :
          (all_data[i].value.energies = <<>>) <=> (all_data[i].value.forces = <<>>)
    /\ (pc \in {"xlim_f", "savefig_f", "print_f", "close_f", "done"}) =>
          CurveLabels("fig_e") = CurveLabels("fig_f")
    /\ failedAt # "xlim_f"

\* a run that drew both plots from a Validation file holding only a frame
\* without atoms
C10_Witness ==
    /\ pc = "done"
    /\ FileOf("Validation").kind = "ok"
    /\ Len(FileOf("Validation").frames) = 1
    /\ ~HasData("Validation")
    /\ CurveLabels("fig_f") = <<"Train", "Test">>

====
